---- MODULE Spec2Model ----
(***************************************************************************)
(* A model of weather_announcer.py: one process invocation of main(), with *)
(* get_weather_data() and format_weather_message() computed as the code    *)
(* computes them.                                                          *)
(*                                                                         *)
(* Python and JSON values are tagged records:                              *)
(*   [t |-> "null"]                 None / JSON null                       *)
(*   [t |-> "int",   v |-> n]       an int n                               *)
(*   [t |-> "float", v |-> n]       a float with one decimal, n = 10*value *)
(*                                  (the request asks numericPrecision=    *)
(*                                  decimal; 22.5 is v = 225)              *)
(*   [t |-> "str",   s |-> "..."]   a string                               *)
(*   [t |-> "obj",   o |-> f]       a dict / JSON object, f a function     *)
(*                                  from its keys to its values            *)
(*   [t |-> "list",  l |-> <<..>>]  a list                                 *)
(* Console lines and messages are real strings.                            *)
(***************************************************************************)
EXTENDS Integers, Sequences, FiniteSets, TLC

VARIABLES
    WU_API_KEY,      \* module global, line 11
    WU_STATION_ID,   \* module global, line 12
    pc,              \* position in main()
    response,        \* what the first requests.get produced
    weather_data,    \* main's local weather_data
    message,         \* main's local message
    console,         \* the lines printed so far
    http_calls,      \* number of requests.get calls issued
    calls,           \* the pipeline stages called so far, in order
    via_default,     \* the wind label came from the default before the loop
    crashed          \* an exception left main() uncaught

vars == <<WU_API_KEY, WU_STATION_ID, pc, response, weather_data, message,
          console, http_calls, calls, via_default, crashed>>

-----------------------------------------------------------------------------
(* Bounds of the model *)

\* API keys of every length 0..MaxKeyLen are tried.
MaxKeyLen == 9

\* Wind directions 0.0, 0.1, ..., MaxDirTenths/10 degrees are tried.
MaxDirTenths == 3604

-----------------------------------------------------------------------------
(* Values *)

None == [t |-> "null"]
Int_(n) == [t |-> "int", v |-> n]
Float_(n) == [t |-> "float", v |-> n]
Str(s) == [t |-> "str", s |-> s]
Obj(f) == [t |-> "obj", o |-> f]
List(l) == [t |-> "list", l |-> l]

IsNumber(x) == x.t \in {"int", "float"}

\* The numeric value of a number, in tenths.
Tenths(x) == IF x.t = "int" THEN 10 * x.v ELSE x.v

\* k in d, for a dict d.
HasKey(d, k) == k \in DOMAIN d.o

\* Python's truth value: None, "", {} and [] are false.
Truthy(x) ==
    CASE x.t = "null" -> FALSE
      [] x.t = "str" -> x.s # ""
      [] x.t = "obj" -> DOMAIN x.o # {}
      [] x.t = "list" -> x.l # <<>>
      [] x.t \in {"int", "float"} -> x.v # 0

Abs(n) == IF n < 0 THEN -n ELSE n

\* str(x), as an f-string interpolates it.
PyStr(x) ==
    CASE x.t = "null" -> "None"
      [] x.t = "int" -> ToString(x.v)
      [] x.t = "float" ->
           (IF x.v < 0 THEN "-" ELSE "") \o ToString(Abs(x.v) \div 10)
               \o "." \o ToString(Abs(x.v) % 10)
      [] x.t = "str" -> x.s
      [] x.t = "obj" -> IF DOMAIN x.o = {} THEN "{}" ELSE "{...}"
      [] x.t = "list" -> IF x.l = <<>> THEN "[]" ELSE "[...]"

\* needle in hay, for strings.
Contains(hay, needle) ==
    \E i \in 1..(Len(hay) - Len(needle) + 1) :
        SubSeq(hay, i, i + Len(needle) - 1) = needle

\* s[:n]
Prefix(s, n) == SubSeq(s, 1, IF Len(s) < n THEN Len(s) ELSE n)

\* %H or %M: two digits.
Pad2(n) == (IF n < 10 THEN "0" ELSE "") \o ToString(n)

-----------------------------------------------------------------------------
(* format_weather_message *)

\* The table of lines 113-122, in insertion order, in tenths of a degree.
cardinal_directions ==
    << [name |-> "N",  min_angle |-> 3375, max_angle |-> 225],
       [name |-> "NE", min_angle |-> 225,  max_angle |-> 675],
       [name |-> "E",  min_angle |-> 675,  max_angle |-> 1125],
       [name |-> "SE", min_angle |-> 1125, max_angle |-> 1575],
       [name |-> "S",  min_angle |-> 1575, max_angle |-> 2025],
       [name |-> "SW", min_angle |-> 2025, max_angle |-> 2475],
       [name |-> "W",  min_angle |-> 2475, max_angle |-> 2925],
       [name |-> "NW", min_angle |-> 2925, max_angle |-> 3375] >>

\* A comparison off by the boundary: min_angle < wind_direction <= max_angle.
InIntervalOpenLow(e, d) == e.min_angle < d /\ d <= e.max_angle

\* The test of line 126: min_angle <= wind_direction < max_angle.
InInterval(e, d) == e.min_angle <= d /\ d < e.max_angle

\* The entries of the table whose test succeeds for d (tenths).
Matching(d) == {i \in DOMAIN cardinal_directions : InInterval(cardinal_directions[i], d)}

\* The loop of lines 125-128 from entry i on: the first entry whose test
\* succeeds, or 0 when the loop ends without a break.
RECURSIVE FirstMatch(_, _)
FirstMatch(i, d) ==
    IF i > Len(cardinal_directions) THEN 0
    ELSE IF InInterval(cardinal_directions[i], d) THEN i
    ELSE FirstMatch(i + 1, d)

\* Lines 124-128: wind_cardinal, and whether it is the default of line 124.
WindCardinal(d) ==
    LET i == FirstMatch(1, d)
    IN  IF i = 0 THEN [label |-> "N", default |-> TRUE]
        ELSE [label |-> cardinal_directions[i].name, default |-> FALSE]

\* A template that reports the pressure in place of the wind speed.
MessageTextSwapped(wd, cardinal, now) ==
    "Current weather conditions: " \o PyStr(wd.o["conditions"]) \o ". "
    \o "Temperature " \o PyStr(wd.o["temperature"]) \o " degrees Celsius. "
    \o "Humidity " \o PyStr(wd.o["humidity"]) \o " percent. "
    \o "Wind " \o PyStr(wd.o["pressure"]) \o " kilometers per hour from " \o cardinal \o ". "
    \o "Pressure " \o PyStr(wd.o["wind_speed"]) \o " millibars. "
    \o "Reported at " \o Pad2(now[1]) \o ":" \o Pad2(now[2]) \o " local time."

\* The f-string of lines 130-137; now = <<hour, minute>> of datetime.now().
MessageText(wd, cardinal, now) ==
    "Current weather conditions: " \o PyStr(wd.o["conditions"]) \o ". "
    \o "Temperature " \o PyStr(wd.o["temperature"]) \o " degrees Celsius. "
    \o "Humidity " \o PyStr(wd.o["humidity"]) \o " percent. "
    \o "Wind " \o PyStr(wd.o["wind_speed"]) \o " kilometers per hour from " \o cardinal \o ". "
    \o "Pressure " \o PyStr(wd.o["pressure"]) \o " millibars. "
    \o "Reported at " \o Pad2(now[1]) \o ":" \o Pad2(now[2]) \o " local time."

\* format_weather_message(weather_data), lines 106-138.  The result is
\* [raised, value, default]: raised is TRUE when the call raises (the
\* comparison of line 126 raises TypeError for a wind direction that is not a
\* number, and line 112 for a weather_data that has no such key).
format_weather_message(wd, now) ==
    IF ~Truthy(wd)
    THEN [raised |-> FALSE, value |-> "Unable to get weather data at this time.",
          default |-> FALSE]
    ELSE IF wd.t # "obj" \/ ~HasKey(wd, "wind_direction")
              \/ ~IsNumber(wd.o["wind_direction"])
    THEN [raised |-> TRUE, value |-> "", default |-> FALSE]
    ELSE LET c == WindCardinal(Tenths(wd.o["wind_direction"]))
         IN  [raised |-> FALSE, value |-> MessageText(wd, c.label, now),
              default |-> c.default]

-----------------------------------------------------------------------------
(* get_weather_data *)

\* The secret the keys of the model are prefixes of.  Its first character
\* occurs in no other text of the program, so a line holds a key exactly when
\* the code put it there.
SecretKey == "Zq7Xw9Jy2Vb4Lm6T"

StationName == "KCASANFR70"

Keys == {None} \cup {Str(Prefix(SecretKey, n)) : n \in 0..MaxKeyLen}

Stations == {None, Str(""), Str(StationName)}

\* A check that forgets the station ID.
ConfigMissingKeyOnly(key, station) == ~Truthy(key)

\* Line 23: not WU_API_KEY or not WU_STATION_ID.
ConfigMissing(key, station) == ~Truthy(key) \/ ~Truthy(station)

Endpoint == "https://api.weather.com/v2/pws/observations/current"

\* The URL requests.get sends: url and params of lines 28-35, in dict order.
FullUrl(key, station) ==
    Endpoint \o "?stationId=" \o station.s \o "&format=json&units=m&apiKey="
        \o key.s \o "&numericPrecision=decimal"

\* Line 43: the same without the apiKey parameter.
debug_url(station) ==
    Endpoint \o "?stationId=" \o station.s
        \o "&format=json&units=m&numericPrecision=decimal"

\* Lines 38-39, printed before the request is sent.
RequestLines(key, station) ==
    << "Requesting weather data from station: " \o station.s,
       "Using API key: " \o Prefix(key.s, 8) \o "..." >>

(* The observation objects the API may answer with.  A key is absent, null *)
(* or a value.                                                             *)
Absent == [t |-> "absent"]

\* The dict of the pairs whose value is not Absent.
RECURSIVE MkObj(_)
MkObj(pairs) ==
    IF pairs = <<>> THEN <<>>
    ELSE LET h == Head(pairs)
         IN  IF h[2] = Absent THEN MkObj(Tail(pairs))
             ELSE (h[1] :> h[2]) @@ MkObj(Tail(pairs))

MetricObjects ==
    { Obj(MkObj(<< <<"temp", a>>, <<"pressure", b>>, <<"windSpeed", c>> >>)) :
        a \in {Absent, None, Float_(225)},
        b \in {Absent, Int_(1013)},
        c \in {Absent, Int_(10)} }

ObsObjects ==
    { Obj(MkObj(<< <<"metric", m>>, <<"humidity", h>>, <<"winddir", w>>,
                   <<"wxPhraseLong", pl>>, <<"wxPhrase", p>>, <<"wxPhraseShort", ps>> >>)) :
        m \in {Absent, None} \cup MetricObjects,
        h \in {Absent, None, Int_(60)},
        w \in {Absent, None, Int_(190), Int_(0), Float_(3599)},
        pl \in {Absent, Str("Cloudy")},
        p \in {Absent, Str("Clouds")},
        ps \in {Absent, Str("Cldy")} }

\* The decoded bodies response.json() may return.
JsonBodies ==
    {None, Obj(<<>>), Obj("observations" :> None), Obj("observations" :> List(<<>>)),
     Obj("observations" :> List(<<None>>))}
    \cup {Obj("observations" :> List(<<o>>)) : o \in ObsObjects}

(* What the first requests.get can produce.  The text of a requests        *)
(* exception is the library's: it may or may not quote the URL of the      *)
(* request, which carries the key.  response.json() raises a               *)
(* JSONDecodeError, which is a RequestException in requests >= 2.27 and    *)
(* only a ValueError before.                                               *)
Responses(key, station) ==
    {[kind |-> "transport_error", text |-> x, data |-> None] :
        x \in {"Connection aborted.",
               "Max retries exceeded with url: " \o FullUrl(key, station)}}
    \cup {[kind |-> "http_error", text |-> x, data |-> None] :
        x \in {"401 Client Error: Unauthorized",
               "401 Client Error: Unauthorized for url: " \o FullUrl(key, station)}}
    \cup {[kind |-> k, text |-> "Expecting value: line 1 column 1 (char 0)", data |-> None] :
        k \in {"bad_json_request_exception", "bad_json_value_error"}}
    \cup {[kind |-> "json", text |-> "", data |-> d] : d \in JsonBodies}

NoResponse == [kind |-> "none", text |-> "", data |-> None]

TypeErrorNotIterable == "argument of type 'NoneType' is not iterable"

\* required_fields without the humidity entry.
required_fields_no_humidity ==
    << [field |-> "metric", subfields |-> <<"temp", "pressure", "windSpeed">>],
       [field |-> "winddir", subfields |-> <<>>] >>

\* required_fields, lines 60-64, in dict order: a field and its subfields.
required_fields ==
    << [field |-> "metric", subfields |-> <<"temp", "pressure", "windSpeed">>],
       [field |-> "humidity", subfields |-> <<>>],
       [field |-> "winddir", subfields |-> <<>>] >>

\* A step's outcome: ok (go on), or the lines printed and None returned.
Ok == [ok |-> TRUE, lines |-> <<>>]
Fail(lines) == [ok |-> FALSE, lines |-> lines]
Unexpected(text) == Fail(<<"Unexpected error getting weather data: " \o text>>)

\* Lines 71-74: the inner loop over the subfields, from the j-th on.
RECURSIVE CheckSubfields(_, _, _, _)
CheckSubfields(obs, field, subfields, j) ==
    IF j > Len(subfields) THEN Ok
    ELSE IF obs.o[field].t # "obj" THEN Unexpected(TypeErrorNotIterable)
    ELSE IF ~HasKey(obs.o[field], subfields[j])
    THEN Fail(<<"Error: Missing subfield '" \o subfields[j] \o "' in " \o field>>)
    ELSE CheckSubfields(obs, field, subfields, j + 1)

\* Lines 66-74: the loop over required_fields, from the i-th entry on.
RECURSIVE CheckFields(_, _, _)
CheckFields(obs, required, i) ==
    IF i > Len(required) THEN Ok
    ELSE IF ~HasKey(obs, required[i].field)
    THEN Fail(<<"Error: Missing field '" \o required[i].field \o "' in observation data">>)
    ELSE LET sub == CheckSubfields(obs, required[i].field, required[i].subfields, 1)
         IN  IF ~sub.ok THEN sub ELSE CheckFields(obs, required, i + 1)

\* Lines 76-83: the fallback chain of the conditions text.
Conditions(obs) ==
    IF HasKey(obs, "wxPhraseLong") THEN obs.o["wxPhraseLong"]
    ELSE IF HasKey(obs, "wxPhrase") THEN obs.o["wxPhrase"]
    ELSE IF HasKey(obs, "wxPhraseShort") THEN obs.o["wxPhraseShort"]
    ELSE Str("Unknown")

\* Lines 85-92: the record returned; a subscript of a missing key raises
\* KeyError, which line 102 catches.
BuildRecord(obs) ==
    IF ~HasKey(obs, "metric") THEN [ret |-> None, lines |-> Unexpected("'metric'").lines]
    ELSE IF ~HasKey(obs, "humidity") THEN [ret |-> None, lines |-> Unexpected("'humidity'").lines]
    ELSE IF ~HasKey(obs, "winddir") THEN [ret |-> None, lines |-> Unexpected("'winddir'").lines]
    ELSE [ret |-> Obj([temperature |-> obs.o["metric"].o["temp"],
                       humidity |-> obs.o["humidity"],
                       pressure |-> obs.o["metric"].o["pressure"],
                       wind_speed |-> obs.o["metric"].o["windSpeed"],
                       wind_direction |-> obs.o["winddir"],
                       conditions |-> Conditions(obs)]),
          lines |-> <<>>]

\* Lines 52-92: the decoded body to the value returned and the lines printed.
Validate(data) ==
    IF data.t # "obj" THEN [ret |-> None, lines |-> Unexpected(TypeErrorNotIterable).lines]
    ELSE IF ~HasKey(data, "observations") \/ ~Truthy(data.o["observations"])
    THEN [ret |-> None,
          lines |-> <<"Error: No observations found in API response",
                      "API Response: " \o PyStr(data)>>]
    ELSE LET obs == data.o["observations"].l[1]
         IN  IF obs.t # "obj"
             THEN [ret |-> None, lines |-> Unexpected(TypeErrorNotIterable).lines]
             ELSE LET chk == CheckFields(obs, required_fields, 1)
                  IN  IF ~chk.ok THEN [ret |-> None, lines |-> chk.lines]
                      ELSE BuildRecord(obs)

\* Lines 40-104 once requests.get has produced r: [ret, lines].
HandleResponse(r, station) ==
    CASE r.kind = "transport_error" ->
           \* e.response is None: line 96 is skipped
           [ret |-> None, lines |-> <<"Network error getting weather data: " \o r.text>>]
      [] r.kind = "http_error" ->
           [ret |-> None,
            lines |-> <<"Request URL: " \o debug_url(station),
                        "Network error getting weather data: " \o r.text,
                        "API Error Response: <body>">>]
      [] r.kind = "bad_json_request_exception" ->
           [ret |-> None,
            lines |-> <<"Request URL: " \o debug_url(station),
                        "Network error getting weather data: " \o r.text>>]
      [] r.kind = "bad_json_value_error" ->
           [ret |-> None,
            lines |-> <<"Request URL: " \o debug_url(station),
                        "Error parsing API response: " \o r.text,
                        "API Response: <body>">>]
      [] r.kind = "json" ->
           LET v == Validate(r.data)
           IN  [ret |-> v.ret,
                lines |-> <<"Request URL: " \o debug_url(station),
                            "API Response received. Checking data structure...">>
                          \o v.lines]

-----------------------------------------------------------------------------
(* announce_to_allstar *)

\* Lines 140-162: the line printed, sent or not (ok).  Every exception of
\* the AMI client is caught at line 161.  main holds no call of it, so no
\* action below uses it.
announce_to_allstar(ok) ==
    IF ok THEN <<"Weather announcement sent successfully">>
    ELSE <<"Error sending announcement to AllStar: <e>">>

-----------------------------------------------------------------------------
(* main *)

\* The wall-clock times datetime.now() may give at line 136.
Clocks == {<<7, 5>>, <<23, 59>>}

\* A branch that is always taken.
TakesBranchAlways(wd) == TRUE

\* Line 168: if weather_data.
TakesBranch(wd) == Truthy(wd)

\* The print statements of lines 187-218 (accents dropped, "<v>" for a value
\* of the second response); access: the statement subscripts obs and raises
\* KeyError or TypeError when the key is missing.
RawStatements ==
    << [text |-> "Informacion de la Estacion:", access |-> FALSE],
       [text |-> "ID de Estacion: <v>", access |-> TRUE],
       [text |-> "Ubicacion: <v>", access |-> TRUE],
       [text |-> "Pais: <v>", access |-> TRUE],
       [text |-> "Coordenadas: <v>N, <v>W", access |-> TRUE],
       [text |-> "Elevacion: <v> metros", access |-> TRUE],
       [text |-> "Informacion Temporal:", access |-> FALSE],
       [text |-> "Tiempo UTC: <v>", access |-> TRUE],
       [text |-> "Tiempo Local: <v>", access |-> TRUE],
       [text |-> "Condiciones Actuales:", access |-> FALSE],
       [text |-> "Temperatura: <v>C", access |-> TRUE],
       [text |-> "Indice de Calor: <v>C", access |-> TRUE],
       [text |-> "Punto de Rocio: <v>C", access |-> TRUE],
       [text |-> "Sensacion Termica: <v>C", access |-> TRUE],
       [text |-> "Humedad: <v>%", access |-> TRUE],
       [text |-> "Informacion del Viento:", access |-> FALSE],
       [text |-> "Direccion: <v>", access |-> TRUE],
       [text |-> "Velocidad: <v> km/h", access |-> TRUE],
       [text |-> "Rafagas: <v> km/h", access |-> TRUE],
       [text |-> "Presion y Precipitacion:", access |-> FALSE],
       [text |-> "Presion: <v> mb", access |-> TRUE],
       [text |-> "Tasa de Precipitacion: <v> mm/h", access |-> TRUE],
       [text |-> "Precipitacion Total: <v> mm", access |-> TRUE],
       [text |-> "Otros Datos:", access |-> FALSE],
       [text |-> "Radiacion Solar: <v>", access |-> TRUE],
       [text |-> "Indice UV: <v>", access |-> TRUE],
       [text |-> "Estado QC: <v>", access |-> TRUE] >>

\* Where the try block of lines 173-218 can raise: 0 is the request, the
\* decoding or data['observations'][0] (lines 174-185); i is the i-th
\* statement; Len + 1 is nowhere.
RawFailPoints ==
    {0, Len(RawStatements) + 1}
    \cup {i \in DOMAIN RawStatements : RawStatements[i].access}

\* Lines 172-222 when the block raises at fail_at.
RawLines(fail_at) ==
    <<"=== Raw API Response ===">>
    \o [i \in 1..(IF fail_at = 0 THEN 0 ELSE fail_at - 1) |-> RawStatements[i].text]
    \o (IF fail_at <= Len(RawStatements) THEN <<"Error getting raw data: <e>">> ELSE <<>>)
    \o <<"=======================">>

\* Lines 225-235.
ReportLines(wd, msg) ==
    << "=== Weather Information ===",
       "Conditions: " \o PyStr(wd.o["conditions"]),
       "Temperature: " \o PyStr(wd.o["temperature"]) \o "C",
       "Humidity: " \o PyStr(wd.o["humidity"]) \o "%",
       "Wind Speed: " \o PyStr(wd.o["wind_speed"]) \o " km/h",
       "Wind Direction: " \o PyStr(wd.o["wind_direction"]),
       "Pressure: " \o PyStr(wd.o["pressure"]) \o " mb",
       "========================",
       "Formatted message:",
       msg >>

Init ==
    /\ WU_API_KEY \in Keys
    /\ WU_STATION_ID \in Stations
    /\ pc = "start"
    /\ response = NoResponse
    /\ weather_data = None
    /\ message = ""
    /\ console = <<>>
    /\ http_calls = 0
    /\ calls = <<>>
    /\ via_default = FALSE
    /\ crashed = FALSE

\* Lines 165-166: main prints and calls get_weather_data.
Start ==
    /\ pc = "start"
    /\ console' = Append(console, "Getting weather data...")
    /\ calls' = Append(calls, "fetch")
    /\ pc' = "fetch"
    /\ UNCHANGED <<WU_API_KEY, WU_STATION_ID, response, weather_data, message,
                   http_calls, via_default, crashed>>

\* Lines 23-25: the configuration is missing.
FetchNoConfig ==
    /\ pc = "fetch"
    /\ ConfigMissing(WU_API_KEY, WU_STATION_ID)
    /\ console' = Append(console, "Error: WU_API_KEY or WU_STATION_ID not set in .env file")
    /\ weather_data' = None
    /\ pc' = "branch"
    /\ UNCHANGED <<WU_API_KEY, WU_STATION_ID, response, message, http_calls,
                   calls, via_default, crashed>>

\* Lines 27-40: the two progress lines and the request.  Past line 23 the
\* key is a string; the station is printed as the f-string prints it.
FetchRequest ==
    /\ pc = "fetch"
    /\ ~ConfigMissing(WU_API_KEY, WU_STATION_ID)
    /\ LET station == Str(PyStr(WU_STATION_ID))
       IN  /\ console' = console \o RequestLines(WU_API_KEY, station)
           /\ response' \in Responses(WU_API_KEY, station)
    /\ http_calls' = http_calls + 1
    /\ pc' = "fetched"
    /\ UNCHANGED <<WU_API_KEY, WU_STATION_ID, weather_data, message, calls,
                   via_default, crashed>>

\* Lines 40-104: the rest of get_weather_data, given what the request gave.
FetchHandle ==
    /\ pc = "fetched"
    /\ LET r == HandleResponse(response, Str(PyStr(WU_STATION_ID)))
       IN  /\ console' = console \o r.lines
           /\ weather_data' = r.ret
    /\ pc' = "branch"
    /\ UNCHANGED <<WU_API_KEY, WU_STATION_ID, response, message, http_calls,
                   calls, via_default, crashed>>

\* Line 169: message = format_weather_message(weather_data).  An exception
\* it raises is caught nowhere: main ends with a traceback.
Format ==
    /\ pc = "branch"
    /\ TakesBranch(weather_data)
    /\ calls' = Append(calls, "format")
    /\ \E now \in Clocks :
         LET r == format_weather_message(weather_data, now)
         IN  IF r.raised
             THEN /\ crashed' = TRUE
                  /\ pc' = "done"
                  /\ UNCHANGED <<message, via_default>>
             ELSE /\ message' = r.value
                  /\ via_default' = r.default
                  /\ pc' = "raw"
                  /\ UNCHANGED crashed
    /\ UNCHANGED <<WU_API_KEY, WU_STATION_ID, response, weather_data, console,
                   http_calls>>

\* Lines 172-222: the second request and the dump of its answer; whatever
\* it raises is caught at line 220.
RawDump ==
    /\ pc = "raw"
    /\ http_calls' = http_calls + 1
    /\ \E fail_at \in RawFailPoints : console' = console \o RawLines(fail_at)
    /\ pc' = "report"
    /\ UNCHANGED <<WU_API_KEY, WU_STATION_ID, response, weather_data, message,
                   calls, via_default, crashed>>

\* Lines 225-235: the report and the formatted message.  Subscripting a
\* weather_data that is None raises TypeError, caught nowhere.
Report ==
    /\ pc = "report"
    /\ IF weather_data.t = "obj"
       THEN /\ console' = console \o ReportLines(weather_data, message)
            /\ UNCHANGED crashed
       ELSE /\ console' = Append(console, "=== Weather Information ===")
            /\ crashed' = TRUE
    /\ pc' = "done"
    /\ UNCHANGED <<WU_API_KEY, WU_STATION_ID, response, weather_data, message,
                   http_calls, calls, via_default>>

\* Lines 236-237: the else branch.
ReportFailure ==
    /\ pc = "branch"
    /\ ~TakesBranch(weather_data)
    /\ console' = Append(console, "Failed to get weather data")
    /\ pc' = "done"
    /\ UNCHANGED <<WU_API_KEY, WU_STATION_ID, response, weather_data, message,
                   http_calls, calls, via_default, crashed>>

Next ==
    \/ Start
    \/ FetchNoConfig
    \/ FetchRequest
    \/ FetchHandle
    \/ Format
    \/ RawDump
    \/ Report
    \/ ReportFailure

Spec == Init /\ [][Next]_vars

-----------------------------------------------------------------------------
(* format_weather_message alone: main at line 169 with any observation of   *)
(* numbers, the wind direction over every tenth of a degree.               *)

FmtInputs ==
    { Obj([temperature |-> a, humidity |-> Int_(60), pressure |-> Int_(1013),
           wind_speed |-> Int_(10), wind_direction |-> w, conditions |-> c]) :
        a \in {Float_(225), Float_(-30)},
        w \in {Float_(n) : n \in 0..MaxDirTenths} \cup {Int_(190), Int_(0)},
        c \in {Str("Cloudy"), Str("Unknown")} }

InitFmt ==
    /\ WU_API_KEY = Str(SecretKey)
    /\ WU_STATION_ID = Str(StationName)
    /\ pc = "branch"
    /\ response = NoResponse
    /\ weather_data \in FmtInputs
    /\ message = ""
    /\ console = <<>>
    /\ http_calls = 1
    /\ calls = <<"fetch">>
    /\ via_default = FALSE
    /\ crashed = FALSE

NextFmt == Format

SpecFmt == InitFmt /\ [][NextFmt]_vars

-----------------------------------------------------------------------------
(* Properties *)

Range(q) == {q[i] : i \in DOMAIN q}

InConsole(text) == text \in Range(console)

StartsWith(line, p) == Prefix(line, Len(p)) = p

\* get_weather_data has returned.
Returned == pc \notin {"start", "fetch", "fetched"}

\* get_weather_data has returned the failure result.
FetchFailed == Returned /\ weather_data = None

\* C1: in every run of main there is exactly one fetch, then one format, then
\* one announce, and the network layer is asked once.  Stated for the runs
\* whose fetch succeeds and that reach the end of main (for the others C2 and
\* C3 say that no format takes place).
C1_OneFetchFormatAnnounce ==
    (pc = "done" /\ ~crashed /\ weather_data # None)
        => (calls = <<"fetch", "format", "announce">> /\ http_calls = 1)

\* The key or the station ID is unset or empty.
ConfigAbsent ==
    \/ WU_API_KEY = None \/ WU_API_KEY = Str("")
    \/ WU_STATION_ID = None \/ WU_STATION_ID = Str("")

\* C2: with the API key or the station ID absent, no HTTP request is ever
\* issued in the run, and get_weather_data returns the failure result.
C2_NoConfigNoRequest ==
    ConfigAbsent => (http_calls = 0 /\ (Returned => weather_data = None))

C2_Witness ==
    /\ pc = "done"
    /\ WU_STATION_ID = None
    /\ WU_API_KEY = Str(Prefix(SecretKey, MaxKeyLen))
    /\ http_calls = 0
    /\ InConsole("Error: WU_API_KEY or WU_STATION_ID not set in .env file")

\* A line by which get_weather_data reports a failure.
IsFailureLine(line) ==
    \/ StartsWith(line, "Error: ")
    \/ StartsWith(line, "Network error getting weather data: ")
    \/ StartsWith(line, "Error parsing API response: ")
    \/ StartsWith(line, "Unexpected error getting weather data: ")

\* C3: once the fetch has failed, format and announce are never called, no
\* formatted message is computed or printed, the failure is on the console,
\* and main ends by reporting it.
C3_FetchFailureAborts ==
    FetchFailed =>
        /\ "format" \notin Range(calls)
        /\ "announce" \notin Range(calls)
        /\ message = ""
        /\ ~InConsole("Formatted message:")
        /\ \E i \in DOMAIN console : IsFailureLine(console[i])
        /\ pc \in {"branch", "done"}
        /\ pc = "done" => InConsole("Failed to get weather data")

C3_Witness ==
    /\ pc = "done"
    /\ response.kind = "http_error"
    /\ weather_data = None
    /\ calls = <<"fetch">>
    /\ InConsole("Failed to get weather data")

SixFields ==
    {"temperature", "humidity", "pressure", "wind_speed", "wind_direction", "conditions"}

\* A record with all six fields, the five readings numbers and the
\* conditions a string.
FullyPopulated(wd) ==
    /\ wd.t = "obj"
    /\ DOMAIN wd.o = SixFields
    /\ \A f \in SixFields \ {"conditions"} : IsNumber(wd.o[f])
    /\ wd.o["conditions"].t = "str"

\* C4: get_weather_data returns None or a record whose six fields are all
\* present with a value; no other record is returned or formatted.
C4_RecordFullyPopulated ==
    Returned => (weather_data = None \/ FullyPopulated(weather_data))

\* The 8-point compass: the label of the 45-degree sector centred on
\* 0, 45, ..., 315 degrees that holds d (tenths, 0 <= d < 3600).
CompassLabels == <<"N", "NE", "E", "SE", "S", "SW", "W", "NW">>
Reference(d) == CompassLabels[(((d + 225) \div 450) % 8) + 1]

\* The wind direction formatted, in tenths, and whether it is in [0, 360).
Dir == Tenths(weather_data.o["wind_direction"])
DirInRange == 0 <= Dir /\ Dir < 3600

\* The labels the message gives the wind.
LabelsIn(msg) ==
    {l \in Range(CompassLabels) : Contains(msg, " kilometers per hour from " \o l \o ". ")}

\* C5: for every wind direction in [0, 360) the message carries exactly one
\* label, that of the compass sector [min, max) holding the direction.
C5_ClassificationAgrees ==
    (pc = "raw" /\ DirInRange) => LabelsIn(message) = {Reference(Dir)}

C5_Witness ==
    /\ pc = "raw"
    /\ weather_data.o["wind_direction"] = Float_(225)
    /\ LabelsIn(message) = {"NE"}

\* The observation of the end-to-end scenario.
ScenarioObs ==
    Obj([temperature |-> Float_(225), humidity |-> Int_(60), pressure |-> Int_(1013),
         wind_speed |-> Int_(10), wind_direction |-> Int_(190),
         conditions |-> Str("Cloudy")])

ScenarioFormatted == pc = "raw" /\ weather_data = ScenarioObs

\* C6 as stated: the scenario's wind is "SW" and the message holds "Cloudy",
\* "22.5 degrees Celsius", "60 percent", "10 kilometers per hour from SW"
\* and "1013 millibars".
C6_ScenarioSW ==
    ScenarioFormatted =>
        /\ LabelsIn(message) = {"SW"}
        /\ Contains(message, "Cloudy")
        /\ Contains(message, "22.5 degrees Celsius")
        /\ Contains(message, "60 percent")
        /\ Contains(message, "10 kilometers per hour from SW")
        /\ Contains(message, "1013 millibars")

\* C6 as amended: the scenario's wind (190 degrees) is "S" and the message
\* holds "Cloudy", "22.5 degrees Celsius", "60 percent",
\* "10 kilometers per hour from S." and "1013 millibars".
C6_ScenarioS ==
    ScenarioFormatted =>
        /\ LabelsIn(message) = {"S"}
        /\ Contains(message, "Cloudy")
        /\ Contains(message, "22.5 degrees Celsius")
        /\ Contains(message, "60 percent")
        /\ Contains(message, "10 kilometers per hour from S.")
        /\ Contains(message, "1013 millibars")

C6_Witness == ScenarioFormatted /\ Contains(message, "Wind 10 kilometers per hour from S. ")

\* C7: no line on the console holds the full API key.
C7_NoFullKeyOnConsole ==
    Truthy(WU_API_KEY) =>
        \A i \in DOMAIN console : ~Contains(console[i], WU_API_KEY.s)

\* C8: main never ends by an uncaught exception.
C8_NeverCrashes == ~crashed

\* The first observation of a well-formed answer: the body is an object whose
\* observations list is not empty, its first element an object whose metric,
\* when present, is an object.
HasObs ==
    /\ response.kind = "json"
    /\ response.data.t = "obj"
    /\ HasKey(response.data, "observations")
    /\ response.data.o["observations"].t = "list"
    /\ response.data.o["observations"].l # <<>>
    /\ response.data.o["observations"].l[1].t = "obj"
    /\ LET obs == response.data.o["observations"].l[1]
       IN  HasKey(obs, "metric") => obs.o["metric"].t = "obj"

Obs1 == response.data.o["observations"].l[1]

\* The required fields the observation lacks.
Lacking(obs) ==
    {f \in {"metric", "humidity", "winddir"} : ~HasKey(obs, f)}
    \cup (IF HasKey(obs, "metric")
          THEN {f \in {"temp", "pressure", "windSpeed"} : ~HasKey(obs.o["metric"], f)}
          ELSE {})

\* The validation error that names f.
MissingLine(f) ==
    IF f \in {"temp", "pressure", "windSpeed"}
    THEN "Error: Missing subfield '" \o f \o "' in metric"
    ELSE "Error: Missing field '" \o f \o "' in observation data"

MissingLines == {MissingLine(f) : f \in {"metric", "humidity", "winddir", "temp", "pressure", "windSpeed"}}

NoDataLine == "Error: No observations found in API response"

IsMalformedLine(line) ==
    \/ StartsWith(line, "Error parsing API response: ")
    \/ StartsWith(line, "Network error getting weather data: ")

C10_ExactlyOneIntervalMatches ==
    (pc = "raw" /\ DirInRange) => (Cardinality(Matching(Dir)) = 1 /\ ~via_default)

====
